---- MODULE Spec2Model ----
(***************************************************************************)
(* RSVPreader (src/app.py): paced word playback with per-document resume   *)
(* progress kept in reading_progress.json.                                 *)
(*                                                                         *)
(* Two threads of control are modelled: the GUI thread, which runs the     *)
(* MainWindow slots (load_file, start_display, stop_display,               *)
(* reset_progress), and the WordDisplayThread worker created by            *)
(* start_display.  The progress file is shared between them without any    *)
(* lock, so every file access of save_progress (read, open-for-write,      *)
(* dump) is a separate step.                                               *)
(*                                                                         *)
(* Not modelled: widgets (labels, progress bar, cover), the settings file, *)
(* EPUB parsing (a document is given by its extracted text), failures of   *)
(* a write to the progress file, and the KeyboardInterrupt handler of      *)
(* run() (lines 136-138; Python delivers KeyboardInterrupt to the main     *)
(* thread only).  An exception that leaves a slot of the GUI thread ends    *)
(* that slot and the application is taken to keep running; an application  *)
(* that aborts instead has a subset of these behaviours.                   *)
(***************************************************************************)
EXTENDS Integers, Sequences, FiniteSets, TLC

\* ---------------------------------------------------------------- bounds
\* number of tokens of document "A"
MaxLen == 3
\* largest index an initial progress table holds for a document
MaxStored == 4
\* number of tokens of the longest text a context dialog is opened on
MaxCtxLen == 123

\* ------------------------------------------------------------- documents
WS == " "

RECURSIVE Word(_)
\* the n-th token of document "A": n letters, so that tokens are distinct
Word(n) == IF n = 0 THEN <<>> ELSE Word(n - 1) \o <<"a">>

RECURSIVE JoinWords(_)
\* "a aa aaa ...": the first n tokens joined by single blanks
JoinWords(n) ==
  IF n = 0 THEN <<>>
  ELSE IF n = 1 THEN Word(1)
  ELSE JoinWords(n - 1) \o <<WS>> \o Word(n)

\* the decimal numeral of n, as a sequence of characters
Digits == <<"0", "1", "2", "3", "4", "5", "6", "7", "8", "9">>

RECURSIVE Numeral(_)
Numeral(n) ==
  IF n < 10 THEN <<Digits[n + 1]>> ELSE Numeral(n \div 10) \o <<Digits[(n % 10) + 1]>>

RECURSIVE JoinNumerals(_, _)
\* the numerals of a..b joined by single blanks, built by halves
JoinNumerals(a, b) ==
  IF a = b THEN Numeral(a)
  ELSE LET m == (a + b) \div 2
       IN JoinNumerals(a, m) \o <<WS>> \o JoinNumerals(m + 1, b)

\* "0 1 2 ... n-1": a text of n distinct tokens
LongText(n) == IF n = 0 THEN <<>> ELSE JoinNumerals(0, n - 1)

\* the documents the file dialog offers
Docs == {"A", "B", "W"}

\* extract_text_from_epub: the text of each document, as a sequence of
\* characters.  "B" has leading, doubled and trailing blanks; "W" is
\* blanks only (chapters without text, joined by ' ').
extract_text_from_epub(fp) ==
  CASE fp = "A" -> JoinWords(MaxLen)
    [] fp = "B" -> <<WS, "b", WS, WS, "c", "c", WS>>
    [] OTHER    -> <<WS>>

RECURSIVE SplitRange(_, _, _)
\* the maximal runs of non-blank characters of s[a..b], in order.  The
\* range is cut in two halves; a run that crosses the cut is the last run
\* of the left half followed by the first run of the right half.
SplitRange(s, a, b) ==
  IF a > b THEN <<>>
  ELSE IF a = b THEN (IF s[a] = WS THEN <<>> ELSE << <<s[a]>> >>)
  ELSE LET m == (a + b) \div 2
           L == SplitRange(s, a, m)
           R == SplitRange(s, m + 1, b)
       IN IF s[m] # WS /\ s[m + 1] # WS
          THEN SubSeq(L, 1, Len(L) - 1) \o <<L[Len(L)] \o R[1]>> \o SubSeq(R, 2, Len(R))
          ELSE L \o R

\* str.split(): the maximal runs of non-blank characters, in order
split(s) == SplitRange(s, 1, Len(s))

\* ---------------------------------------------------------- progress file
\* The content of reading_progress.json:
\*   missing    the file does not exist
\*   dict       a JSON object, tab maps document paths to indices
\*   corrupt    not JSON
\*   nondict    JSON, but not an object (a list, a number, null)
\*   unreadable opening it for reading raises IOError
\*   trunc      opened for writing and not yet written: empty
EmptyTab == [d \in {} |-> 0]

FileOf(kind, tab) == [kind |-> kind, tab |-> tab]

\* the tables an initial file may hold: records for "A" and "B" only
InitTabs ==
  UNION {[S -> 0..MaxStored] : S \in SUBSET {"A", "B"}}

InitFiles ==
  {FileOf(k, EmptyTab) : k \in {"missing", "corrupt", "nondict", "unreadable"}}
    \cup {FileOf("dict", tb) : tb \in InitTabs}

\* load_all_progress: the parsed content, or {} when the file is missing,
\* unreadable or not JSON.  A JSON value that is not an object is returned
\* as it is.
load_all_progress(f) ==
  IF f.kind = "dict" THEN [isdict |-> TRUE, tab |-> f.tab]
  ELSE IF f.kind = "nondict" THEN [isdict |-> FALSE, tab |-> EmptyTab]
  ELSE [isdict |-> TRUE, tab |-> EmptyTab]

\* the result of a call that raised
Raise == -1

\* load_progress: data.get(file_path, 0); data.get raises AttributeError
\* when data is not a dict
load_progress(f, fp) ==
  LET data == load_all_progress(f) IN
  IF ~data.isdict THEN Raise
  ELSE IF fp \in DOMAIN data.tab THEN data.tab[fp] ELSE 0

\* data[file_path] = index
SetItem(tab, fp, index) ==
  [d \in (DOMAIN tab) \cup {fp} |-> IF d = fp THEN index ELSE tab[d]]

\* the file a dump leaves.  The writer truncated the file when it opened it;
\* if nobody wrote since, the result is the writer's table.  If another
\* writer dumped in between, the writer's bytes overlay the other's from
\* offset 0: the result is the writer's table when its serialisation is at
\* least as long, and otherwise its table followed by the other's tail,
\* which is not JSON.  The lengths of the serialisations are not modelled,
\* so both outcomes are possible.
DumpResults(tab, f) ==
  IF f.kind = "dict" /\ f.tab # tab
  THEN {FileOf("dict", tab), FileOf("corrupt", EmptyTab)}
  ELSE {FileOf("dict", tab)}

\* ------------------------------------------------------------------ state
\* slots for WordDisplayThread objects; 0 stands for None
Threads == {1, 2}

VARIABLES
  file,               \* reading_progress.json
  text,               \* MainWindow.text
  current_file_path,  \* MainWindow.current_file_path, "" for None
  thread,             \* MainWindow.thread: a slot, or 0 for None
  gpc,                \* where the GUI thread is inside a slot
  gdata,              \* save_progress called by the GUI thread: data
  words_per_minute,   \* MainWindow.words_per_minute
  context,            \* the ContextWindow dialog that is open, if any
  pc,                 \* per thread object: position of run()
  running,            \* WordDisplayThread.running
  w_file_path,        \* WordDisplayThread.file_path
  w_text,             \* WordDisplayThread.text
  w_words_per_minute, \* WordDisplayThread.words_per_minute
  delay,              \* run(): delay, in milliseconds
  current_index,      \* WordDisplayThread.current_index
  start_index,        \* run(): start_index
  idx,                \* run(): the loop variable i
  wdata,              \* save_progress called by run(): data
  out,                \* history: what the session emitted and wrote
  raised,             \* history: run() ended with an exception
  stopRet,            \* history: a stop_display of this session returned
  wordsAtStop,        \* history: words emitted when stop() was called
  resetDuring,        \* history: reset_progress ran since the session began
  expect,             \* history: the start a session not yet begun is due, from a reset or the session before
  justReset           \* history: the last GUI operation was a reset of current_file_path

gvars == <<text, current_file_path, words_per_minute, context, thread, gpc, gdata>>
wvars == <<pc, running, w_file_path, w_text, w_words_per_minute, delay, current_index, start_index, idx, wdata>>
hvars == <<out, raised, stopRet, wordsAtStop, resetDuring, expect, justReset>>
vars == <<file, gvars, wvars, hvars>>

\* the words of a session and their number
words(t) == split(w_text[t])
total_words(t) == Len(words(t))

Event(ev, n, w, v) == [ev |-> ev, idx |-> n, word |-> w, val |-> v]

Log(t, e) == [out EXCEPT ![t] = Append(@, e)]

RECURSIVE CountEv(_, _)
CountEv(s, ev) ==
  IF s = <<>> THEN 0
  ELSE (IF Head(s).ev = ev THEN 1 ELSE 0) + CountEv(Tail(s), ev)

NumWords(t) == CountEv(out[t], "word")

\* what a new session is due to start from: nothing known, the index the
\* session before it had reached when its stop returned ("resume", with the
\* index it had reached when stop() was called), or 0 after a reset ("reset")
NoExpect == [kind |-> "none", val |-> 0, atStop |-> 0]

\* line 185: the rate when no settings file exists
DefaultRate == 300

\* the rates the speed slider is moved to; it ranges over 100..600
\* (lines 234-235)
Rates == {300, 600}

\* no ContextWindow is open
NoContext == [open |-> FALSE, text |-> <<>>, current_index |-> 0, view |-> <<>>]

\* MainWindow.__init__ (thread = None, text = "", no file chosen); the
\* progress file is whatever an earlier run or the user left on disk.
Init ==
  /\ file \in InitFiles
  /\ text = <<>>
  /\ current_file_path = ""
  /\ thread = 0
  /\ gpc = "idle"
  /\ gdata = EmptyTab
  /\ words_per_minute = DefaultRate
  /\ context = NoContext
  /\ pc = [t \in Threads |-> "none"]
  /\ running = [t \in Threads |-> FALSE]
  /\ w_file_path = [t \in Threads |-> ""]
  /\ w_text = [t \in Threads |-> <<>>]
  /\ w_words_per_minute = [t \in Threads |-> 0]
  /\ delay = [t \in Threads |-> 0]
  /\ current_index = [t \in Threads |-> 0]
  /\ start_index = [t \in Threads |-> 0]
  /\ idx = [t \in Threads |-> 0]
  /\ wdata = [t \in Threads |-> EmptyTab]
  /\ out = [t \in Threads |-> <<>>]
  /\ raised = [t \in Threads |-> FALSE]
  /\ stopRet = [t \in Threads |-> FALSE]
  /\ wordsAtStop = [t \in Threads |-> 0]
  /\ resetDuring = [t \in Threads |-> FALSE]
  /\ expect = [t \in Threads |-> NoExpect]
  /\ justReset = FALSE

\* ----------------------------------------------------- WordDisplayThread
\* line 122: delay = 60 / self.words_per_minute seconds, here in
\* milliseconds; exact for the rates of Rates, which divide 60000
delay_of(wpm) == 60000 \div wpm

\* RunBegin with the loop entered one index late
RunBegin_skipFirst(t) ==
  /\ pc[t] = "start"
  /\ LET si == load_progress(file, w_file_path[t]) IN
       IF si = Raise
       THEN /\ pc' = [pc EXCEPT ![t] = "done"]
            /\ raised' = [raised EXCEPT ![t] = TRUE]
            /\ UNCHANGED <<start_index, idx, delay>>
       ELSE /\ pc' = [pc EXCEPT ![t] = "loop"]
            /\ start_index' = [start_index EXCEPT ![t] = si]
            /\ idx' = [idx EXCEPT ![t] = si + 1]
            /\ delay' = [delay EXCEPT ![t] = delay_of(w_words_per_minute[t])]
            /\ UNCHANGED raised
  /\ expect' = [expect EXCEPT ![t] = NoExpect]
  /\ UNCHANGED <<file, gvars, running, w_file_path, w_text, w_words_per_minute,
                 current_index, wdata, out, stopRet, wordsAtStop, resetDuring,
                 justReset>>

\* run(), lines 119-123: split the text, read the stored index, compute
\* the delay
RunBegin(t) ==
  /\ pc[t] = "start"
  /\ LET si == load_progress(file, w_file_path[t]) IN
       IF si = Raise
       THEN /\ pc' = [pc EXCEPT ![t] = "done"]
            /\ raised' = [raised EXCEPT ![t] = TRUE]
            /\ UNCHANGED <<start_index, idx, delay>>
       ELSE /\ pc' = [pc EXCEPT ![t] = "loop"]
            /\ start_index' = [start_index EXCEPT ![t] = si]
            /\ idx' = [idx EXCEPT ![t] = si]
            /\ delay' = [delay EXCEPT ![t] = delay_of(w_words_per_minute[t])]
            /\ UNCHANGED raised
  /\ expect' = [expect EXCEPT ![t] = NoExpect]
  /\ UNCHANGED <<file, gvars, running, w_file_path, w_text, w_words_per_minute,
                 current_index, wdata, out, stopRet, wordsAtStop, resetDuring,
                 justReset>>

\* the top of the loop without the test of the running flag
LoopTop_ignoreFlag(t) ==
  /\ pc[t] = "loop"
  /\ IF idx[t] >= total_words(t)
     THEN /\ pc' = [pc EXCEPT ![t] = "done"]
          /\ UNCHANGED current_index
     ELSE /\ pc' = [pc EXCEPT ![t] = "word"]
          /\ current_index' = [current_index EXCEPT ![t] = idx[t]]
  /\ UNCHANGED <<file, gvars, running, w_file_path, w_text, w_words_per_minute, delay, start_index, idx, wdata, hvars>>
\* lines 126-129: the next i of range(start_index, total_words), the test
\* of the running flag, self.current_index = i
LoopTop(t) ==
  /\ pc[t] = "loop"
  /\ IF idx[t] >= total_words(t) \/ ~running[t]
     THEN /\ pc' = [pc EXCEPT ![t] = "done"]
          /\ UNCHANGED current_index
     ELSE /\ pc' = [pc EXCEPT ![t] = "word"]
          /\ current_index' = [current_index EXCEPT ![t] = idx[t]]
  /\ UNCHANGED <<file, gvars, running, w_file_path, w_text, w_words_per_minute, delay, start_index, idx, wdata, hvars>>

\* line 130: self.word_signal.emit(words[i])
EmitWord(t) ==
  /\ pc[t] = "word"
  /\ pc' = [pc EXCEPT ![t] = "progress"]
  /\ out' = Log(t, Event("word", idx[t], words(t)[idx[t] + 1], 0))
  /\ UNCHANGED <<file, gvars, running, w_file_path, w_text, w_words_per_minute, delay, current_index, start_index,
                 idx, wdata, raised, stopRet, wordsAtStop, resetDuring, expect, justReset>>

\* the percentage rounded to the nearest integer, halves to the even one,
\* as round() does
progress_rounded(n, total) ==
  LET x == (n + 1) * 100
      q == x \div total
      r == x % total
  IN IF 2 * r > total THEN q + 1
     ELSE IF 2 * r < total THEN q
     ELSE IF q % 2 = 0 THEN q ELSE q + 1

\* line 131: int((i + 1) / total_words * 100).  The float quotient is
\* taken as exact, which it is for every total_words below 50.
progress(n, total) == ((n + 1) * 100) \div total

\* line 132: self.progress_signal.emit(progress)
EmitProgress(t) ==
  /\ pc[t] = "progress"
  /\ pc' = [pc EXCEPT ![t] = "sleep"]
  /\ out' = Log(t, Event("progress", idx[t], <<>>, progress(idx[t], total_words(t))))
  /\ UNCHANGED <<file, gvars, running, w_file_path, w_text, w_words_per_minute, delay, current_index, start_index,
                 idx, wdata, raised, stopRet, wordsAtStop, resetDuring, expect, justReset>>

\* the pacing delay followed at once by the next i, with no checkpoint
Sleep_noCheckpoint(t) ==
  /\ pc[t] = "sleep"
  /\ pc' = [pc EXCEPT ![t] = "loop"]
  /\ idx' = [idx EXCEPT ![t] = idx[t] + 1]
  /\ out' = Log(t, Event("sleep", idx[t], <<>>, delay[t]))
  /\ UNCHANGED <<file, gvars, running, w_file_path, w_text, w_words_per_minute, delay, current_index, start_index,
                 wdata, raised, stopRet, wordsAtStop, resetDuring, expect, justReset>>
\* line 133: time.sleep(delay)
Sleep(t) ==
  /\ pc[t] = "sleep"
  /\ pc' = [pc EXCEPT ![t] = "save_load"]
  /\ out' = Log(t, Event("sleep", idx[t], <<>>, delay[t]))
  /\ UNCHANGED <<file, gvars, running, w_file_path, w_text, w_words_per_minute, delay, current_index, start_index,
                 idx, wdata, raised, stopRet, wordsAtStop, resetDuring, expect, justReset>>

\* the index the checkpoint of step n stores, line 135: i + 1
checkpoint_same(n) == n
checkpoint(n) == n + 1

\* line 135, save_progress lines 53-54: data = load_all_progress();
\* data[file_path] = i + 1 (TypeError when data is not a dict)
SaveLoad(t) ==
  /\ pc[t] = "save_load"
  /\ LET data == load_all_progress(file) IN
       IF ~data.isdict
       THEN /\ pc' = [pc EXCEPT ![t] = "done"]
            /\ raised' = [raised EXCEPT ![t] = TRUE]
            /\ UNCHANGED wdata
       ELSE /\ pc' = [pc EXCEPT ![t] = "save_open"]
            /\ wdata' = [wdata EXCEPT ![t] = SetItem(data.tab, w_file_path[t], checkpoint(idx[t]))]
            /\ UNCHANGED raised
  /\ UNCHANGED <<file, gvars, running, w_file_path, w_text, w_words_per_minute, delay, current_index, start_index,
                 idx, out, stopRet, wordsAtStop, resetDuring, expect, justReset>>

\* save_all_progress line 37: open(PROGRESS_JSON, "w") empties the file
SaveOpen(t) ==
  /\ pc[t] = "save_open"
  /\ pc' = [pc EXCEPT ![t] = "save_dump"]
  /\ file' = FileOf("trunc", EmptyTab)
  /\ out' = Log(t, Event("open", idx[t], <<>>, 0))
  /\ UNCHANGED <<gvars, running, w_file_path, w_text, w_words_per_minute, delay, current_index, start_index,
                 idx, wdata, raised, stopRet, wordsAtStop, resetDuring, expect, justReset>>

\* save_all_progress line 38: json.dump and the close of the file; the
\* loop then moves to the next i
SaveDump(t) ==
  /\ pc[t] = "save_dump"
  /\ pc' = [pc EXCEPT ![t] = "loop"]
  /\ \E nf \in DumpResults(wdata[t], file) : file' = nf
  /\ idx' = [idx EXCEPT ![t] = idx[t] + 1]
  /\ out' = Log(t, Event("save", idx[t], <<>>, wdata[t][w_file_path[t]]))
  /\ wdata' = [wdata EXCEPT ![t] = EmptyTab]
  /\ UNCHANGED <<gvars, running, w_file_path, w_text, w_words_per_minute, delay, current_index, start_index,
                 raised, stopRet, wordsAtStop, resetDuring, expect, justReset>>

WorkerStep(t) ==
  \/ RunBegin(t)
  \/ LoopTop(t)
  \/ EmitWord(t)
  \/ EmitProgress(t)
  \/ Sleep(t)
  \/ SaveLoad(t)
  \/ SaveOpen(t)
  \/ SaveDump(t)

\* ------------------------------------------------------------- MainWindow
\* WordDisplayThread.stop, line 141: self.running = False
stop(t) == [running EXCEPT ![t] = FALSE]

\* a wait that returns at once
wait_noblock(t) == TRUE

\* QThread.wait(), line 390: returns once run() of the thread has returned
wait(t) == pc[t] = "done"

\* history kept when stop() is called: the words emitted so far, for the
\* first stop of a session
NoteStop(t) ==
  wordsAtStop' = [wordsAtStop EXCEPT ![t] = IF running[t] THEN NumWords(t) ELSE @]

\* load_file, lines 334-361: the dialog returns fp ("" when cancelled).
\* The stored index read at line 355 only feeds the progress bar; when
\* load_progress raises, the path and the text are set already.
load_file ==
  /\ gpc = "idle"
  /\ \E fp \in Docs \cup {""} :
       IF fp = ""
       THEN UNCHANGED <<text, current_file_path, justReset>>
       ELSE /\ current_file_path' = fp
            /\ text' = extract_text_from_epub(fp)
            /\ justReset' = FALSE
  /\ UNCHANGED <<file, words_per_minute, context, thread, gpc, gdata, wvars, out, raised,
                 stopRet, wordsAtStop, resetDuring, expect>>

\* the slot a new thread object takes: that of the object self.thread
\* held, which is released when its run() is over, and a free one otherwise
NewSlot ==
  IF thread = 0 THEN 1
  ELSE IF pc[thread] = "done" THEN thread
  ELSE CHOOSE t \in Threads : t # thread

\* lines 382-385: WordDisplayThread(...), __init__ lines 112-116, start()
Create ==
  LET new == NewSlot
      old == thread
      Upd(f, v) == [f EXCEPT ![new] = v]
  IN
  /\ pc[new] \in {"none", "done"}
  /\ thread' = new
  /\ pc' = Upd(pc, "start")
  /\ running' = Upd(running, TRUE)
  /\ w_file_path' = Upd(w_file_path, current_file_path)
  /\ w_text' = Upd(w_text, text)
  /\ w_words_per_minute' = Upd(w_words_per_minute, words_per_minute)
  /\ delay' = Upd(delay, 0)
  /\ current_index' = Upd(current_index, 0)
  /\ start_index' = Upd(start_index, 0)
  /\ idx' = Upd(idx, 0)
  /\ wdata' = Upd(wdata, EmptyTab)
  /\ out' = Upd(out, <<>>)
  /\ raised' = Upd(raised, FALSE)
  /\ stopRet' = [t \in Threads |-> IF t = new THEN FALSE
                                   ELSE IF t = old THEN TRUE ELSE stopRet[t]]
  /\ wordsAtStop' = Upd(wordsAtStop, 0)
  /\ resetDuring' = Upd(resetDuring, FALSE)
  /\ expect' = Upd(expect,
                   IF justReset THEN [kind |-> "reset", val |-> 0, atStop |-> 0]
                   ELSE IF old # 0 /\ pc[old] = "done" /\ ~raised[old] /\ ~resetDuring[old]
                           /\ w_file_path[old] = current_file_path
                   THEN [kind |-> "resume", val |-> start_index[old] + NumWords(old),
                         atStop |-> start_index[old] + wordsAtStop[old]]
                   ELSE NoExpect)
  /\ justReset' = FALSE

\* start_display, lines 377-381: nothing without a text; otherwise
\* stop_display() first: stop the thread self.thread holds and wait for it
start_display ==
  /\ gpc = "idle"
  /\ IF text = <<>>
     THEN UNCHANGED vars
     ELSE IF thread # 0
     THEN /\ running' = stop(thread)
          /\ NoteStop(thread)
          /\ gpc' = "start_wait"
          /\ UNCHANGED <<file, text, current_file_path, words_per_minute, context, thread, gdata,
                         pc, w_file_path, w_text, w_words_per_minute, delay, current_index, start_index, idx, wdata,
                         out, raised, stopRet, resetDuring, expect, justReset>>
     ELSE /\ Create
          /\ UNCHANGED <<file, text, current_file_path, words_per_minute, context, gpc, gdata>>

\* start_display, lines 381-385: the wait of stop_display returns and the
\* new thread is created and started
start_display_resume ==
  /\ gpc = "start_wait"
  /\ wait(thread)
  /\ Create
  /\ gpc' = "idle"
  /\ UNCHANGED <<file, text, current_file_path, words_per_minute, context, gdata>>

\* stop_display that also stores the cursor of the thread
stop_display_saving ==
  /\ gpc = "idle"
  /\ IF thread = 0
     THEN UNCHANGED vars
     ELSE /\ running' = stop(thread)
          /\ NoteStop(thread)
          /\ gpc' = "stop_wait"
          /\ justReset' = FALSE
          /\ file' = FileOf("dict", SetItem(load_all_progress(file).tab,
                                            w_file_path[thread], current_index[thread]))
          /\ UNCHANGED <<text, current_file_path, words_per_minute, context, thread, gdata,
                         pc, w_file_path, w_text, w_words_per_minute, delay, current_index, start_index, idx, wdata,
                         out, raised, stopRet, resetDuring, expect>>

\* stop_display, lines 388-389
stop_display ==
  /\ gpc = "idle"
  /\ IF thread = 0
     THEN UNCHANGED vars
     ELSE /\ running' = stop(thread)
          /\ NoteStop(thread)
          /\ gpc' = "stop_wait"
          /\ justReset' = FALSE
          /\ UNCHANGED <<file, text, current_file_path, words_per_minute, context, thread, gdata,
                         pc, w_file_path, w_text, w_words_per_minute, delay, current_index, start_index, idx, wdata,
                         out, raised, stopRet, resetDuring, expect>>

\* stop_display, line 390: the wait returns
stop_display_return ==
  /\ gpc = "stop_wait"
  /\ wait(thread)
  /\ gpc' = "idle"
  /\ stopRet' = [stopRet EXCEPT ![thread] = TRUE]
  /\ UNCHANGED <<file, text, current_file_path, words_per_minute, context, thread, gdata, wvars,
                 out, raised, wordsAtStop, resetDuring, expect, justReset>>

\* reset_progress, lines 419-420, save_progress lines 53-54:
\* data = load_all_progress(); data[file_path] = 0 (TypeError when data is
\* not a dict, which ends the slot)
reset_progress ==
  /\ gpc = "idle"
  /\ IF current_file_path = ""
     THEN UNCHANGED vars
     ELSE LET data == load_all_progress(file) IN
          /\ IF ~data.isdict
             THEN UNCHANGED <<gpc, gdata, resetDuring>>
             ELSE /\ gdata' = SetItem(data.tab, current_file_path, 0)
                  /\ gpc' = "rp_open"
                  /\ resetDuring' = [t \in Threads |-> pc[t] # "none"]
          /\ justReset' = FALSE
          /\ UNCHANGED <<file, text, current_file_path, words_per_minute, context, thread, wvars,
                         out, raised, stopRet, wordsAtStop, expect>>

\* reset_progress: save_all_progress line 37, open(PROGRESS_JSON, "w")
reset_progress_open ==
  /\ gpc = "rp_open"
  /\ gpc' = "rp_dump"
  /\ file' = FileOf("trunc", EmptyTab)
  /\ UNCHANGED <<text, current_file_path, words_per_minute, context, thread, gdata, wvars, hvars>>

\* reset_progress: save_all_progress line 38, json.dump and close; then
\* lines 421-422
reset_progress_dump ==
  /\ gpc = "rp_dump"
  /\ gpc' = "idle"
  /\ \E nf \in DumpResults(gdata, file) : file' = nf
  /\ gdata' = EmptyTab
  /\ justReset' = TRUE
  /\ UNCHANGED <<text, current_file_path, words_per_minute, context, thread, wvars,
                 out, raised, stopRet, wordsAtStop, resetDuring, expect>>

\* a rate change that reaches the threads that exist
update_speed_live ==
  /\ gpc = "idle"
  /\ \E value \in Rates \ {words_per_minute} :
       /\ words_per_minute' = value
       /\ w_words_per_minute' = [t \in Threads |-> value]
       /\ delay' = [t \in Threads |-> delay_of(value)]
  /\ justReset' = FALSE
  /\ UNCHANGED <<file, text, current_file_path, context, thread, gpc, gdata,
                 pc, running, w_file_path, w_text, current_index, start_index, idx, wdata,
                 out, raised, stopRet, wordsAtStop, resetDuring, expect>>
\* update_speed, lines 363-367: the slider was moved to value.  The
\* settings file written at line 367 is not modelled.
update_speed ==
  /\ gpc = "idle"
  /\ \E value \in Rates \ {words_per_minute} : words_per_minute' = value
  /\ justReset' = FALSE
  /\ UNCHANGED <<file, text, current_file_path, context, thread, gpc, gdata, wvars,
                 out, raised, stopRet, wordsAtStop, resetDuring, expect>>

\* ---------------------------------------------------------- ContextWindow
\* lines 165-166: the tokens shown before the current one, and the width
\* of the window from its first token to the current one and those after
ContextBefore == 60
ContextAfter == 61

Max(a, b) == IF a >= b THEN a ELSE b
Min(a, b) == IF a <= b THEN a ELSE b

\* update_context with the window one token short at its end
context_list_short(w, c) ==
  LET start == Max(0, c - ContextBefore)
      end == Min(Len(w), c + ContextAfter - 1)
  IN [j \in 1..Max(0, end - start) |->
        [word |-> w[start + j], current |-> (start + j - 1 = c)]]

\* update_context, lines 165-173: the list context, one entry per i of
\* range(start, end); the entry of i = current_index is the one wrapped
\* in the red span
context_list(w, c) ==
  LET start == Max(0, c - ContextBefore)
      end == Min(Len(w), c + ContextAfter)
  IN [j \in 1..Max(0, end - start) |->
        [word |-> w[start + j], current |-> (start + j - 1 = c)]]

\* show_context, lines 411-413: ContextWindow.__init__ (lines 151-153)
\* takes the text of the window and the cursor of the thread, init_ui
\* calls update_context, and exec_() shows the dialog until it is closed
show_context ==
  /\ gpc = "idle"
  /\ IF thread # 0 /\ text # <<>>
     THEN /\ context' = [open |-> TRUE, text |-> text,
                         current_index |-> current_index[thread],
                         view |-> context_list(split(text), current_index[thread])]
          /\ gpc' = "cw_exec"
          /\ justReset' = FALSE
          /\ UNCHANGED <<file, text, current_file_path, words_per_minute, thread, gdata,
                         wvars, out, raised, stopRet, wordsAtStop, resetDuring, expect>>
     ELSE UNCHANGED vars

\* line 413: exec_() returns when the dialog is closed
close_context ==
  /\ gpc = "cw_exec"
  /\ context' = NoContext
  /\ gpc' = "idle"
  /\ UNCHANGED <<file, text, current_file_path, words_per_minute, thread, gdata,
                 wvars, hvars>>

\* update_context, lines 164-174, on a dialog whose view is not built yet
update_context ==
  /\ context.open
  /\ context.view = <<>>
  /\ context' = [context EXCEPT
                   !.view = context_list(split(context.text), context.current_index)]
  /\ UNCHANGED <<file, text, current_file_path, words_per_minute, thread, gpc, gdata,
                 wvars, hvars>>

\* The operations on the progress file and on sessions.  update_speed and
\* the context dialog are added in FullNext: they write words_per_minute
\* and context only, which no action of Next reads except Create, which
\* copies the rate into the new thread.
Next ==
  \/ load_file
  \/ start_display
  \/ start_display_resume
  \/ stop_display
  \/ stop_display_return
  \/ reset_progress
  \/ reset_progress_open
  \/ reset_progress_dump
  \/ \E t \in Threads : WorkerStep(t)

Spec == Init /\ [][Next]_vars

\* every operation of the window
FullNext ==
  \/ Next
  \/ update_speed
  \/ show_context
  \/ close_context

\* FullSpec starts without a progress file or with a table that holds a
\* record for "A"
FullInit == Init /\ (file.kind = "missing" \/ (file.kind = "dict" /\ DOMAIN file.tab = {"A"}))

FullSpec == FullInit /\ [][FullNext]_vars

\* A context dialog just constructed (lines 151-152) on a text of n tokens
\* with the cursor at c, for every n up to MaxCtxLen and every c below n:
\* the window holds document "L", whose session was stopped after token c.
CtxInit ==
  \E n \in 1..MaxCtxLen : \E c \in 0..(n - 1) :
    /\ file = FileOf("dict", [d \in {"L"} |-> c + 1])
    /\ text = LongText(n)
    /\ current_file_path = "L"
    /\ thread = 1
    /\ gpc = "cw_exec"
    /\ gdata = EmptyTab
    /\ words_per_minute = DefaultRate
    /\ context = [open |-> TRUE, text |-> LongText(n), current_index |-> c, view |-> <<>>]
    /\ pc = [t \in Threads |-> IF t = 1 THEN "done" ELSE "none"]
    /\ running = [t \in Threads |-> FALSE]
    /\ w_file_path = [t \in Threads |-> IF t = 1 THEN "L" ELSE ""]
    /\ w_text = [t \in Threads |-> IF t = 1 THEN LongText(n) ELSE <<>>]
    /\ w_words_per_minute = [t \in Threads |-> IF t = 1 THEN DefaultRate ELSE 0]
    /\ delay = [t \in Threads |-> IF t = 1 THEN delay_of(DefaultRate) ELSE 0]
    /\ current_index = [t \in Threads |-> IF t = 1 THEN c ELSE 0]
    /\ start_index = [t \in Threads |-> 0]
    /\ idx = [t \in Threads |-> IF t = 1 THEN c + 1 ELSE 0]
    /\ wdata = [t \in Threads |-> EmptyTab]
    /\ out = [t \in Threads |-> <<>>]
    /\ raised = [t \in Threads |-> FALSE]
    /\ stopRet = [t \in Threads |-> t = 1]
    /\ wordsAtStop = [t \in Threads |-> 0]
    /\ resetDuring = [t \in Threads |-> FALSE]
    /\ expect = [t \in Threads |-> NoExpect]
    /\ justReset = FALSE

\* update_context applied to each of these dialogs
CtxSpec == CtxInit /\ [][update_context]_vars

\* RangeSpec starts from a progress file in which no record exceeds the
\* number of tokens of its document
RangeInit ==
  /\ Init
  /\ file.kind = "dict" => \A d \in DOMAIN file.tab : file.tab[d] <= Len(split(extract_text_from_epub(d)))

RangeSpec == RangeInit /\ [][Next]_vars

\* the worker runs whenever it can: an operating-system thread that is
\* neither blocked nor finished is eventually scheduled
LiveSpec == Spec /\ \A t \in Threads : WF_vars(WorkerStep(t))

\* ------------------------------------------------------------ properties
\* the index the progress store holds for a document: the entry of a
\* well-formed table, and 0 in every other case
StoredIndex(f, fp) ==
  IF f.kind = "dict" /\ fp \in DOMAIN f.tab THEN f.tab[fp] ELSE 0

\* the token sequence of a document
Tokens(fp) == split(extract_text_from_epub(fp))

\* the tokens a session has emitted as word notifications, in order
WordList(t) ==
  LET ws == SelectSeq(out[t], LAMBDA e : e.ev = "word")
  IN [n \in 1..Len(ws) |-> ws[n].word]

\* the session has read its start index
Loaded(t) == pc[t] \notin {"none", "start"} /\ ~raised[t]

\* C1: a session that read the stored index k and ran to its end without
\* being stopped has emitted word notifications for exactly T[k..N-1], in
\* order and once each; with k >= N it has emitted and written nothing.
C1_ResumeCorrectness ==
  \A t \in Threads :
    (pc[t] = "done" /\ running[t] /\ ~raised[t]) =>
      LET T == Tokens(w_file_path[t])
          k == start_index[t]
      IN /\ WordList(t) = SubSeq(T, k + 1, Len(T))
         /\ (k >= Len(T) => out[t] = <<>>)

C1_Witness ==
  \E t \in Threads :
    /\ pc[t] = "done" /\ running[t] /\ ~raised[t]
    /\ start_index[t] > 0
    /\ NumWords(t) >= 2

\* C2, as stated: when stop_display, called after n word notifications,
\* has returned, the stored index is k + n, and the next session for the
\* document starts at k + n.
C2_StopAfterN ==
  /\ \A t \in Threads :
       (stopRet[t] /\ ~raised[t] /\ ~resetDuring[t]) =>
         StoredIndex(file, w_file_path[t]) = start_index[t] + wordsAtStop[t]
  /\ \A t \in Threads :
       (pc[t] = "start" /\ expect[t].kind = "resume" /\ ~resetDuring[t]) =>
         StoredIndex(file, w_file_path[t]) = expect[t].atStop

\* C2, amended: when stop_display has returned, the stored index is k + m
\* for the m word notifications the session has emitted by then, m being
\* the n emitted when stop() was called or one more; the next session for
\* the document reads k + m as its start index and the first word a
\* session emits is the token at its start index.  No reset_progress in
\* between.
C2_StopThenResume ==
  /\ \A t \in Threads :
       (stopRet[t] /\ ~raised[t] /\ ~resetDuring[t]) =>
         /\ StoredIndex(file, w_file_path[t]) = start_index[t] + NumWords(t)
         /\ NumWords(t) - wordsAtStop[t] \in {0, 1}
  /\ \A t \in Threads :
       (pc[t] = "start" /\ expect[t].kind = "resume" /\ ~resetDuring[t]) =>
         load_progress(file, w_file_path[t]) = expect[t].val
  /\ \A t \in Threads :
       NumWords(t) > 0 =>
         WordList(t)[1] = Tokens(w_file_path[t])[start_index[t] + 1]

C2_Witness ==
  \E t \in Threads :
    /\ pc[t] = "start"
    /\ expect[t].kind = "resume"
    /\ expect[t].val = expect[t].atStop + 1
    /\ expect[t].val < total_words(t)
    /\ ~resetDuring[t]

\* C3: every session terminates, and a session that started from a stored
\* index <= N and ended without being stopped or reset leaves N as the
\* stored index of its document.
C3_CompletionCheckpoint ==
  /\ \A t \in Threads : (pc[t] = "start") ~> (pc[t] = "done")
  /\ [](\A t \in Threads :
          (pc[t] = "done" /\ running[t] /\ ~raised[t] /\ ~resetDuring[t]
             /\ start_index[t] <= total_words(t)) =>
            StoredIndex(file, w_file_path[t]) = total_words(t))

C3_Witness ==
  \E t \in Threads :
    /\ pc[t] = "done" /\ running[t] /\ ~raised[t] /\ ~resetDuring[t]
    /\ start_index[t] < total_words(t)
    /\ StoredIndex(file, w_file_path[t]) = total_words(t)

\* C4: once a stop_display of a session has returned, the session emits
\* nothing, writes nothing to the progress file and takes no step.
C4_StopBarrier ==
  [][\A t \in Threads :
       (stopRet[t] /\ stopRet'[t]) =>
         /\ out'[t] = out[t]
         /\ pc'[t] = pc[t]
         /\ idx'[t] = idx[t]]_vars

C4_Witness ==
  \E t \in Threads :
    /\ stopRet[t]
    /\ NumWords(t) > 0
    /\ idx[t] < total_words(t)

\* the threads whose run() has been started and has not returned
Active == {t \in Threads : pc[t] \notin {"none", "done"}}

\* C5: at most one worker is running; when start_display creates a worker
\* the one before it has finished, and no two workers are inside a write
\* of the progress file.
C5_SingleSession ==
  /\ Cardinality(Active) <= 1
  /\ Cardinality({t \in Threads : pc[t] \in {"save_load", "save_open", "save_dump"}}) <= 1
  /\ \A t \in Threads : pc[t] = "start" => \A u \in Threads \ {t} : pc[u] \in {"none", "done"}

C5_Witness ==
  /\ gpc = "start_wait"
  /\ pc[thread] \in {"word", "progress", "sleep", "save_load", "save_open", "save_dump"}

\* C6: a session started right after reset_progress of its document
\* reads 0 as its start index.
C6_ResetRoundTrip ==
  \A t \in Threads :
    (pc[t] = "start" /\ expect[t].kind = "reset") =>
      load_progress(file, w_file_path[t]) = 0

\* a step that reads the progress file
ReadsFile ==
  \/ \E t \in Threads : RunBegin(t) \/ SaveLoad(t)
  \/ reset_progress /\ current_file_path # ""

\* C7: no read of the progress file finds it truncated by a write that is
\* under way.
C7_AtomicRewrite ==
  [][ReadsFile => file.kind # "trunc"]_vars

\* C8: the load_progress a worker is about to call (line 121) returns the
\* stored index when the file is a well-formed table that holds the
\* document, returns 0 otherwise, and does not raise.
C8_GetNeverFails ==
  \A t \in Threads :
    pc[t] = "start" =>
      /\ load_progress(file, w_file_path[t]) # Raise
      /\ load_progress(file, w_file_path[t]) = StoredIndex(file, w_file_path[t])

\* C9: no worker thread exists for a text without tokens.
C9_EmptyRejected ==
  \A t \in Threads : pc[t] # "none" => split(w_text[t]) # <<>>

\* C10: stop_display on a session that has finished (stopped or completed)
\* emits nothing, leaves the progress file and the session as they are
\* apart from the running flag, changes nothing at all when the flag is
\* down already, and its wait returns at once.
C10_IdempotentStop ==
  [][(gpc = "idle" /\ gpc' = "stop_wait" /\ pc[thread] = "done") =>
       /\ out' = out
       /\ file' = file
       /\ UNCHANGED <<text, current_file_path, words_per_minute, context, thread, gdata, pc, w_file_path, w_text, w_words_per_minute, delay,
                      current_index, start_index, idx, wdata>>
       /\ (~running[thread] => running' = running)
       /\ pc'[thread'] = "done"]_vars

C10_Witness ==
  /\ gpc = "stop_wait"
  /\ thread # 0
  /\ stopRet[thread]
  /\ NumWords(thread) > 0

\* the progress notifications of a session
ProgressEvents(t) == SelectSeq(out[t], LAMBDA e : e.ev = "progress")

\* C11, as stated: the progress notification of step i carries
\* round((i+1)/N*100).
C11_ProgressRounded ==
  \A t \in Threads :
    \A j \in 1..Len(ProgressEvents(t)) :
      ProgressEvents(t)[j].val =
        progress_rounded(ProgressEvents(t)[j].idx, Len(Tokens(w_file_path[t])))

\* C11, amended: the j-th progress notification of a session is that of
\* step i = start_index + j - 1 and carries (i+1)/N*100 truncated to an
\* integer, the largest integer p with p*N <= 100*(i+1).
C11_ProgressTruncated ==
  \A t \in Threads :
    \A j \in 1..Len(ProgressEvents(t)) :
      LET e == ProgressEvents(t)[j]
          N == Len(Tokens(w_file_path[t]))
      IN /\ e.idx = start_index[t] + j - 1
         /\ e.idx < N
         /\ e.val * N <= 100 * (e.idx + 1)
         /\ (e.val + 1) * N > 100 * (e.idx + 1)

C11_Witness ==
  \E t \in Threads :
    \E j \in 1..Len(ProgressEvents(t)) :
      LET e == ProgressEvents(t)[j]
      IN /\ e.val # progress_rounded(e.idx, total_words(t))
         /\ j > 1

\* the indices c - ContextBefore and c + ContextAfter, cut to the text
WindowLo(c) == IF c - 60 > 0 THEN c - 60 ELSE 0
WindowHi(c, N) == IF c + 61 < N THEN c + 61 ELSE N

\* C12: for a text of N >= 1 tokens and a cursor c with 0 <= c < N, the
\* view update_context builds holds exactly the tokens of the indices
\* max(0, c-60) .. min(N, c+61) - 1 in order: it starts at 0 when c = 0,
\* ends at N when c = N-1, has at most 121 entries, and marks the token
\* of index c and no other as current.
C12_ContextWindow ==
  (context.open /\ context.view # <<>>) =>
    LET T == split(context.text)
        N == Len(T)
        c == context.current_index
        v == context.view
        lo == WindowLo(c)
        hi == WindowHi(c, N)
    IN (N >= 1 /\ c >= 0 /\ c < N) =>
         /\ Len(v) = hi - lo
         /\ Len(v) <= 121
         /\ \A j \in 1..Len(v) : lo + j \in 1..N /\ v[j].word = T[lo + j]
         /\ \A j \in 1..Len(v) : v[j].current <=> (lo + j - 1 = c)
         /\ Cardinality({j \in 1..Len(v) : v[j].current}) = 1
         /\ (c = 0 => v[1].word = T[1])
         /\ (c = N - 1 => v[Len(v)].word = T[N])

C12_Witness ==
  /\ context.open
  /\ Len(context.view) = 121
  /\ context.current_index > 60
  /\ Len(split(context.text)) > context.current_index + 61

\* C13, second half: within a session the stored index of its document is
\* the number of tokens emitted so far (counted from index 0) or one less.
InStep(t) ==
  LET e == start_index[t] + NumWords(t)
      st == StoredIndex(file, w_file_path[t])
  IN st <= e /\ st >= e - 1

\* C13: at every state of a session whose document is not reset, the
\* stored index is at most the number of tokens already emitted and at
\* most one less than it.
C13_AtLeastOnce ==
  \A t \in Threads : (Loaded(t) /\ ~resetDuring[t]) => InStep(t)

\* the GUI thread is inside a reset_progress for document d
Resetting(d) == gpc \in {"rp_open", "rp_dump"} /\ current_file_path = d

\* C14: while a session for document d is playing, no step other than a
\* reset of d makes the stored index of d smaller.
C14_Monotonic ==
  [][\A t \in Threads :
       (pc[t] \notin {"none", "done"} /\ Loaded(t) /\ ~Resetting(w_file_path[t]))
         => StoredIndex(file', w_file_path[t]) >= StoredIndex(file, w_file_path[t])]_vars

\* the events of one iteration, in the order of lines 130-135
StepEvents == <<"word", "progress", "sleep", "open", "save">>

\* C15: the trace of a session is, index by index from its start index,
\* word(i), progress(i), the pacing delay, then the checkpoint that stores
\* i+1 for the document; all events of index i come before those of i+1
\* and no index is visited twice.
C15_StepOrdering ==
  \A t \in Threads :
    /\ \A j \in 1..Len(out[t]) :
         LET i == start_index[t] + ((j - 1) \div 5)
             e == out[t][j]
         IN /\ e.ev = StepEvents[((j - 1) % 5) + 1]
            /\ e.idx = i
            /\ (e.ev = "word" => i < total_words(t) /\ e.word = words(t)[i + 1])
            /\ (e.ev = "save" => e.val = i + 1)
    /\ \A j1, j2 \in 1..Len(out[t]) :
         (j1 < j2) => /\ out[t][j1].idx <= out[t][j2].idx
                      /\ (out[t][j1].ev = out[t][j2].ev => out[t][j1].idx < out[t][j2].idx)
    /\ (pc[t] = "loop" => Len(out[t]) % 5 = 0 /\ idx[t] = start_index[t] + Len(out[t]) \div 5)

C15_Witness ==
  \E t \in Threads : pc[t] = "loop" /\ Len(out[t]) >= 10 /\ start_index[t] >= 1

\* C16: a worker that finds the running flag false at the top of an
\* iteration ends there, emitting nothing and writing nothing, and the
\* stored index is the one of its last completed iteration; after stop()
\* a worker completes at most the iteration it was in (one more word, its
\* checkpoint) and then terminates.
C16_CooperativeCancel ==
  /\ [][\A t \in Threads :
          (pc[t] = "loop" /\ ~running[t] /\ pc'[t] # "loop") =>
            /\ pc'[t] = "done"
            /\ out'[t] = out[t]
            /\ file' = file
            /\ (~resetDuring[t] /\ CountEv(out[t], "save") >= 1) =>
                 StoredIndex(file', w_file_path[t]) = start_index[t] + CountEv(out[t], "save")]_vars
  /\ [](\A t \in Threads :
          (pc[t] # "none" /\ ~running[t]) =>
            /\ NumWords(t) - wordsAtStop[t] \in {0, 1}
            /\ CountEv(out[t], "save") <= wordsAtStop[t] + 1
            /\ (pc[t] = "done" /\ ~raised[t] => CountEv(out[t], "save") = NumWords(t)))
  /\ \A t \in Threads : (pc[t] # "none" /\ ~running[t]) ~> (pc[t] = "done")

\* a worker stopped past its flag test has emitted one more word, written
\* its checkpoint and ended before the end of the text
C16_Witness ==
  \E t \in Threads :
    /\ pc[t] = "done" /\ ~running[t] /\ ~raised[t] /\ ~resetDuring[t]
    /\ NumWords(t) = wordsAtStop[t] + 1
    /\ start_index[t] + NumWords(t) < total_words(t)
    /\ StoredIndex(file, w_file_path[t]) = start_index[t] + NumWords(t)

\* C17: started from records within 0..N, the stored index of every
\* document stays within 0..N of that document's N tokens; every
\* checkpoint a session writes is in 1..N, and reset_progress writes 0.
C17_IndexRange ==
  /\ \A d \in Docs : StoredIndex(file, d) \in 0..Len(Tokens(d))
  /\ file.kind = "dict" => \A d \in DOMAIN file.tab : file.tab[d] \in 0..Len(Tokens(d))
  /\ \A t \in Threads :
       /\ \A j \in 1..Len(out[t]) :
            out[t][j].ev = "save" => out[t][j].val \in 1..Len(Tokens(w_file_path[t]))
       /\ pc[t] \in {"save_open", "save_dump"} =>
            wdata[t][w_file_path[t]] \in 1..Len(Tokens(w_file_path[t]))
  /\ gpc \in {"rp_open", "rp_dump"} => gdata[current_file_path] = 0

\* a session has just written N for its document while a reset of another
\* document is writing 0
C17_Witness ==
  \E t \in Threads :
    /\ pc[t] = "loop" /\ out[t] # <<>>
    /\ out[t][Len(out[t])].val = total_words(t)
    /\ StoredIndex(file, w_file_path[t]) = total_words(t)
    /\ gpc = "rp_open" /\ current_file_path # w_file_path[t]

\* C18: every pacing delay of a session is the delay of the rate the
\* window had when the session was constructed; update_speed changes
\* neither the rate nor the delay of a session that exists and the new
\* rate is the one the next session constructed takes.
C18_RateFixed ==
  /\ [](\A t \in Threads :
          /\ \A j \in 1..Len(out[t]) :
               out[t][j].ev = "sleep" => out[t][j].val = delay_of(w_words_per_minute[t])
          /\ (Loaded(t) => delay[t] = delay_of(w_words_per_minute[t])))
  /\ [][/\ words_per_minute' # words_per_minute =>
             (w_words_per_minute' = w_words_per_minute /\ delay' = delay /\ out' = out)
        /\ \A t \in Threads :
             /\ (pc[t] # "start" /\ pc'[t] = "start") =>
                  w_words_per_minute'[t] = words_per_minute
             /\ (pc[t] \notin {"none", "done"}) =>
                  w_words_per_minute'[t] = w_words_per_minute[t]]_vars

\* the rate was changed during a session, which has since slept its own
\* delay
C18_Witness ==
  \E t \in Threads :
    /\ pc[t] = "save_load" /\ NumWords(t) >= 2
    /\ words_per_minute # w_words_per_minute[t]
    /\ out[t][Len(out[t])].val = delay_of(w_words_per_minute[t])
    /\ out[t][Len(out[t])].val # delay_of(words_per_minute)

\* the record a table holds for a document, 0 when it has none
TabIndex(tab, d) == IF d \in DOMAIN tab THEN tab[d] ELSE 0

\* C19: an update for document d leaves the record of every other document
\* as it is: when a writer opens the file to rewrite it, the table it is
\* about to write agrees with the complete table the file holds on every
\* document other than the writer's own.
C19_NoLostUpdate ==
  [][/\ (gpc = "rp_open" /\ gpc' = "rp_dump" /\ file.kind = "dict") =>
          \A d \in Docs \ {current_file_path} : TabIndex(gdata, d) = StoredIndex(file, d)
     /\ \A t \in Threads :
          (pc[t] = "save_open" /\ pc'[t] = "save_dump" /\ file.kind = "dict") =>
            \A d \in Docs \ {w_file_path[t]} : TabIndex(wdata[t], d) = StoredIndex(file, d)]_vars

\* C20: a context view that show_context has opened has its cursor within
\* the tokens of the text it shows, is not empty and marks exactly one
\* token as current.
C20_CursorValid ==
  context.open =>
    /\ context.text = text
    /\ context.current_index >= 0
    /\ context.current_index < Len(split(context.text))
    /\ context.view # <<>>
    /\ Cardinality({j \in 1..Len(context.view) : context.view[j].current}) = 1

====
